---- MODULE Spec2Model ----
(***************************************************************************)
(* Model of the diagnostic bridge of arctemplate.py: the level table of    *)
(* setup_logging, the relay arcpy_log_messages, the scoped threshold       *)
(* arcpy_severity_context and the wrapper log_messages.                    *)
(*                                                                         *)
(* Strings that are concatenated by the code (result id + message text)    *)
(* are tuples of one-character strings, so that "+" is \o.  Lines built    *)
(* from an f-string are the tuple of the f-string's literal pieces and     *)
(* substituted values.                                                     *)
(***************************************************************************)
EXTENDS Integers, Sequences, FiniteSets, TLC

\* ---------------------------------------------------------------- bounds
\* number of operations of one run: scopes entered, wrapped calls made and
\* direct calls of arcpy_log_messages
MaxCalls == 2
\* longest message batch the tool produces
MaxBatch == 2
\* number of calls of setup_logging in one run
MaxSetups == 2

VARIABLES
    severity,     \* arcpy's threshold: arcpy.GetSeverityLevel()
    startLevel,   \* the threshold the run started with (history)
    ambient,      \* arcpy's last-message batch: arcpy.GetAllMessages()
    stack,        \* active with-blocks / wrapped calls, innermost last
    calls,        \* history: one record per scope or wrapped call, by id
    log,          \* every call made on the script logger, on the message
                  \* logger and on arcpy.SetSeverityLevel, in order
    relays,       \* history: one record per run of arcpy_log_messages
    uncaught,     \* exception that left the outermost call, or NoExc
    levelNames,   \* the level-name tables of the logging module
    msgLevel,     \* level of the "ArcpyMessages" logger
    setups        \* number of calls of setup_logging so far (history)

\* the state of the logging module
logging == <<levelNames, msgLevel, setups>>

vars == <<severity, startLevel, ambient, stack, calls, log, relays, uncaught,
          levelNames, msgLevel, setups>>

\* ------------------------------------------------------- level registry
\* arcpy_log_level_map of setup_logging, as registered by addLevelName
arcpy_log_level_map ==
    (20 :> "INFO") @@ (21 :> "DEFINITION") @@ (22 :> "START") @@
    (23 :> "STOP") @@ (50 :> "WARNING") @@ (100 :> "ERROR") @@
    (101 :> "EMPTY") @@ (102 :> "GDB_ERROR") @@ (200 :> "ABORT")

\* the raw message types of arcpy's getAllMessages the table is built for
ArcpyRawCodes == {0, 1, 2, 3, 50, 100, 101, 102, 200}

\* level of the logging module that means "unset"
NOTSET == 0

\* the order in which the for loop of line 95 walks the dict
LevelOrder == <<20, 21, 22, 23, 50, 100, 101, 102, 200>>

\* the tables of the logging module before anything is registered:
\* _levelToName and _nameToLevel
StdLevelNames ==
    [toName  |-> (0 :> "NOTSET") @@ (10 :> "DEBUG") @@ (20 :> "INFO") @@
                 (30 :> "WARNING") @@ (40 :> "ERROR") @@ (50 :> "CRITICAL"),
     toLevel |-> ("NOTSET" :> 0) @@ ("DEBUG" :> 10) @@ ("INFO" :> 20) @@
                 ("WARN" :> 30) @@ ("WARNING" :> 30) @@ ("ERROR" :> 40) @@
                 ("CRITICAL" :> 50) @@ ("FATAL" :> 50)]

addLevelName_free(t, level, name) ==
    LET free == CHOOSE l \in level..(level + Cardinality(DOMAIN t.toName)) :
                    /\ l \notin DOMAIN t.toName
                    /\ \A k \in level..(l - 1) : k \in DOMAIN t.toName
    IN  [toName  |-> (free :> name) @@ t.toName,
         toLevel |-> (name :> free) @@ t.toLevel]

\* line 96, logging.addLevelName(level, name): both tables take the pair,
\* over whatever they held for that level and that name
addLevelName(t, level, name) ==
    [toName  |-> (level :> name) @@ t.toName,
     toLevel |-> (name :> level) @@ t.toLevel]

\* lines 95-96: the for loop over arcpy_log_level_map, from entry i on
RECURSIVE register_from(_, _)
register_from(t, i) ==
    IF i > Len(LevelOrder) THEN t
    ELSE register_from(
             addLevelName(t, LevelOrder[i], arcpy_log_level_map[LevelOrder[i]]),
             i + 1)

\* lines 84-96: the registration of setup_logging
register(t) == register_from(t, 1)

\* level of the root logger, which the script never sets: logging.WARNING
RootLevel == 30

\* Logger.getEffectiveLevel of the message logger, a child of the root
\* logger: its own level unless that is 0, then the root's
getEffectiveLevel(level) == IF level # NOTSET THEN level ELSE RootLevel

\* Logger.isEnabledFor(level), as Logger.log of line 144 asks it (nothing
\* calls logging.disable, so the manager disables levels up to 0 only)
isEnabledFor(level, loggerLevel) ==
    level > 0 /\ level >= getEffectiveLevel(loggerLevel)

\* ------------------------------------------------------------- relay
resolve_shift10(msg_type) == IF msg_type < 50 THEN msg_type + 10 ELSE msg_type

resolve_le(msg_type) == IF msg_type <= 50 THEN msg_type + 20 ELSE msg_type

\* lines 140-142: msg_type = message[0]; if msg_type < 50: msg_type += 20
resolve(msg_type) == IF msg_type < 50 THEN msg_type + 20 ELSE msg_type

\* values a wrapped operation can hand back
NoneValue == [kind |-> "None", messages |-> <<>>, resultID |-> <<>>]

Result(batch, rid) == [kind |-> "Result", messages |-> batch, resultID |-> rid]

\* exceptions
NoExc == [cls |-> "none", origin |-> 0, desc |-> "none"]

Exc(cls, origin, desc) == [cls |-> cls, origin |-> origin, desc |-> desc]

\* one call of msg_logger.log(level, msg); raw and text are kept for history
LogCall(relay, message, msg_type, line) ==
    [relay |-> relay, raw |-> message[1], text |-> message[Len(message)],
     level |-> msg_type, msg |-> line]

relay_loop_reversed(relay, messages, result_id) ==
    [i \in 1..Len(messages) |->
        LET message == messages[Len(messages) + 1 - i] IN
        LogCall(relay, message, resolve(message[1]),
                result_id \o message[Len(message)])]

\* lines 139-144: the for loop, one log call per message, in order
relay_loop(relay, messages, result_id) ==
    [i \in 1..Len(messages) |->
        LET message     == messages[i]
            msg_type    == resolve(message[1])
            msg_content == message[Len(message)]
        IN  LogCall(relay, message, msg_type, result_id \o msg_content)]

\* the call arcpy_log_messages() with no source at all
Omitted == [kind |-> "Omitted", messages |-> <<>>, resultID |-> <<>>]

\* arcpy_log_messages(result), lines 123-146: what it logs, how it ends and
\* what it returns.  `result` is a required parameter: a call without it is
\* a TypeError; a value without getAllMessages is an AttributeError at
\* line 137.  Nothing is logged in either case.
arcpy_log_messages(relay, result) ==
    IF result.kind = "Result"
    THEN [logged |-> relay_loop(relay, result.messages, result.resultID),
          raised |-> NoExc,
          ret    |-> result.messages]
    ELSE IF result.kind = "Omitted"
    THEN [logged |-> <<>>,
          raised |-> Exc("TypeError", 0, "missing argument result"),
          ret    |-> <<>>]
    ELSE [logged |-> <<>>,
          raised |-> Exc("AttributeError", 0, "no getAllMessages"),
          ret    |-> <<>>]

\* --------------------------------------------------------- script lines
\* line 195: f"{func.__name__} called with {args}"
StartLine(name, args) == <<name, " called with ", args>>

\* line 199
ErrorLine == <<"ArcPy encounted an error">>

\* line 204
WarningLine == <<"ArcPy encounted an warning and will stop">>

\* line 208: f"Unexpected Error in {func.__name__}: {e}"
UnexpectedLine(name, e) == <<"Unexpected Error in ", name, ": ", e>>

\* line 212: f"{func.__name__} exectued successfully"
SuccessLine(name) == <<name, " exectued successfully">>

\* one call on the script logger, made on behalf of call `id`
ScriptCall(id, levelname, line) ==
    [src |-> "script", call |-> id, level |-> levelname, msg |-> line]

\* one call of arcpy.SetSeverityLevel, made by the scope of call `id`
SetCall(id, value) == [src |-> "arcpy", call |-> id, level |-> value]

\* line 197: func(*args, **kwargs) is called by call `id`
FuncCall(id) == [src |-> "func", call |-> id]

\* one call on the message logger: Logger.log hands the record to the
\* handlers (the file handler of line 100, which takes every level) when the
\* level is enabled.  configured: setup_logging has run.
MsgCall(c) ==
    [src |-> "msg", call |-> c.relay, level |-> c.level, msg |-> c.msg,
     raw |-> c.raw, text |-> c.text,
     configured |-> setups > 0,
     written |-> setups > 0 /\ isEnabledFor(c.level, msgLevel)]

\* ------------------------------------------------------- severity scope
scope_exit_keep(frame) == frame.level

scope_exit_unless_raised(frame) ==
    IF frame.pc = "raised" THEN frame.level ELSE frame.original_level

\* lines 169-170: finally: arcpy.SetSeverityLevel(original_level)
scope_exit(frame) == frame.original_level

\* ------------------------------------------------------------- wrapper
except_clause_swallow(name, e, batch) ==
    [lines |-> <<IF e.cls = "ExecuteError" THEN ErrorLine
                 ELSE IF e.cls = "ExecuteWarning" THEN WarningLine
                 ELSE UnexpectedLine(name, e.desc)>>,
     fetched |-> batch, logged |-> <<>>, raised |-> NoExc]

except_clause_silent(name, e, batch) ==
    [lines |-> <<>>, fetched |-> batch, logged |-> <<>>, raised |-> e]

except_clause_nowarn(name, e, batch) ==
    [lines |-> <<IF e.cls \in {"ExecuteError", "ExecuteWarning"} THEN ErrorLine
                 ELSE UnexpectedLine(name, e.desc)>>,
     fetched |-> batch, logged |-> <<>>, raised |-> e]

except_clause_swapped(name, e, batch) ==
    [lines |-> <<IF e.cls = "ExecuteError" THEN WarningLine
                 ELSE IF e.cls = "ExecuteWarning" THEN ErrorLine
                 ELSE UnexpectedLine(name, e.desc)>>,
     fetched |-> batch, logged |-> <<>>, raised |-> e]

\* lines 198-210: the three except clauses, tried in order.  Each logs one
\* error line, calls arcpy.GetAllMessages() and drops the batch it returns
\* (nothing goes to the message logger), and re-raises what it caught.
except_clause(name, e, batch) ==
    [lines |-> <<IF e.cls = "ExecuteError" THEN ErrorLine
                 ELSE IF e.cls = "ExecuteWarning" THEN WarningLine
                 ELSE UnexpectedLine(name, e.desc)>>,
     fetched |-> batch, logged |-> <<>>, raised |-> e]

\* lines 211-214: the else clause: the success line, the relay of the
\* result, return result.  An exception of the relay leaves the call.
else_clause(name, relay, result) ==
    LET r == arcpy_log_messages(relay, result)
    IN  [lines |-> <<SuccessLine(name)>>, logged |-> r.logged,
         raised |-> r.raised, ret |-> result, relayret |-> r.ret]

\* ------------------------------------------------------ the environment
\* message texts and result ids, as tuples of characters
TextOk == <<"o", "k">>

TextWarn == <<"w", "a", "r", "n">>

TextErr == <<"e", "r", "r">>

\* Result.resultID: "" for a local tool, the job id of a service tool
ResultIDs == {<<>>, <<"j", "7">>}

\* messages [type, return code, text] of getAllMessages; the tool's own
\* types are ArcpyRawCodes, the other types are what a caller of the relay
\* may pass
ToolMessages ==
    << <<0, 0, TextOk>>, <<0, 0, TextOk>>, <<3, 0, TextOk>>,
       <<29, 0, TextOk>>, <<30, 0, TextWarn>>, <<49, 0, TextWarn>>,
       <<50, 345, TextWarn>>, <<100, 999, TextErr>> >>

\* the batches of one run: the runs of at most MaxBatch consecutive messages
Batches ==
    {SubSeq(ToolMessages, t[1], t[1] + t[2] - 1) :
        t \in {u \in (1..Len(ToolMessages)) \X (0..MaxBatch) :
                  u[1] + u[2] - 1 <= Len(ToolMessages)}}

\* what a tool that succeeds returns: a local tool with an empty batch or
\* a service tool with informative messages and a warning
ToolResults ==
    {Result(<<>>, <<>>),
     Result(<< <<0, 0, TextOk>>, <<50, 345, TextWarn>> >>, <<"j", "7">>)}

\* the messages a failed tool leaves behind, whatever the failure class
FailedBatch == << <<50, 345, TextWarn>>, <<100, 999, TextErr>> >>

\* thresholds of arcpy: 0 never raises, 1 raises on warnings and errors,
\* 2 raises on errors only
SeverityLevels == {0, 1, 2}

\* line 174: the severity of log_messages when none is given
DefaultSeverity == 2

\* the severities a scope or a wrapper is configured with
Severities == {1, DefaultSeverity}

FuncName == "Buffer"

FuncArgs == "('roads', 'out')"

Descriptions == {"bad input"}

\* --------------------------------------------------------------- state
Top == stack[Len(stack)]

\* the script is running statements of the innermost body
InBody ==
    uncaught = NoExc /\ (IF stack = <<>> THEN TRUE ELSE Top.pc = "running")

DirectRelays == {i \in 1..Len(relays) : relays[i].by = 0}

Budget == Len(calls) + Cardinality(DirectRelays) < MaxCalls

NewFrame(id, kind, level) ==
    [id |-> id, kind |-> kind, level |-> level, original_level |-> severity,
     pc |-> "running", result |-> NoneValue, exc |-> NoExc]

NewCall(kind, level) ==
    [kind |-> kind, severity |-> level, entry |-> severity,
     parent |-> IF stack = <<>> THEN 0 ELSE Top.id,
     status |-> "active", opExc |-> NoExc, opRet |-> NoneValue,
     out |-> NoExc, ret |-> NoneValue, exit |-> -1, fetched |-> <<>>]

\* lines 162-165: read the threshold, set the new one, log it
scope_enter(id, level) ==
    << SetCall(id, level),
       ScriptCall(id, "DEBUG", <<"arcpy severity set to level ", level>>) >>

\* lines 169-171: set the threshold back, log it
scope_leave(frame) ==
    << SetCall(frame.id, scope_exit(frame)),
       ScriptCall(frame.id, "DEBUG",
                  <<"arcpy severity level set to ", scope_exit(frame)>>) >>

\* the innermost frame ends, normally (exc = NoExc) or by raising exc: the
\* enclosing body goes on, or has exc raised at its call site
Unwind(exc) ==
    LET rest == SubSeq(stack, 1, Len(stack) - 1)
    IN  /\ stack' = IF exc = NoExc \/ rest = <<>> THEN rest
                    ELSE [rest EXCEPT ![Len(rest)].pc = "raised",
                                      ![Len(rest)].exc = exc]
        /\ uncaught' = IF rest = <<>> THEN exc ELSE uncaught

\* history of the frame that ends, and of the frame it raises into
Ended(id, how, exc, ret, fetched) ==
    LET parent == calls[id].parent
        c1 == [calls EXCEPT ![id].status = how, ![id].out = exc,
                            ![id].ret = ret, ![id].exit = severity',
                            ![id].fetched = fetched]
    IN  IF parent # 0 /\ exc # NoExc
        THEN [c1 EXCEPT ![parent].opExc = exc]
        ELSE c1

\* the default of setup_logging's arcpy_msgs_level (line 51)
DefaultMsgsLevel == -1

\* the level the entry point passes (line 323)
MainMsgsLevel == 0

\* the run starts after main has called setup_logging (line 272), here with
\* the default message level
Init ==
    /\ startLevel \in SeverityLevels
    /\ severity = startLevel
    /\ ambient = <<>>
    /\ stack = <<>>
    /\ calls = <<>>
    /\ log = <<>>
    /\ relays = <<>>
    /\ uncaught = NoExc
    /\ levelNames = register(StdLevelNames)
    /\ msgLevel = DefaultMsgsLevel
    /\ setups = 1

\* with arcpy_severity_context(level): the block is entered
EnterScope(level) ==
    /\ InBody /\ Budget
    /\ severity' = level
    /\ stack' = Append(stack, NewFrame(Len(calls) + 1, "scope", level))
    /\ calls' = Append(calls, NewCall("scope", level))
    /\ log' = log \o scope_enter(Len(calls) + 1, level)
    /\ UNCHANGED <<startLevel, ambient, relays, uncaught>>
    /\ UNCHANGED logging

\* the block of a with statement ends: normally, or by the exception `exc`
\* of its body; the finally clause runs either way
ExitScope ==
    /\ uncaught = NoExc /\ stack # <<>>
    /\ Top.kind = "scope" /\ Top.pc \in {"running", "raised"}
    /\ severity' = scope_exit(Top)
    /\ log' = log \o scope_leave(Top)
    /\ Unwind(Top.exc)
    /\ calls' = Ended(Top.id, IF Top.exc = NoExc THEN "returned" ELSE "raised",
                      Top.exc, NoneValue, <<>>)
    /\ UNCHANGED <<startLevel, ambient, relays>>
    /\ UNCHANGED logging

\* log_messages(severity)(func)(*args), lines 194-197: the scope is
\* entered, the start line is logged, func is called
CallWrapped(sev) ==
    /\ InBody /\ Budget
    /\ severity' = sev
    /\ stack' = Append(stack, NewFrame(Len(calls) + 1, "wrapped", sev))
    /\ calls' = Append(calls, NewCall("wrapped", sev))
    /\ log' = log \o scope_enter(Len(calls) + 1, sev)
                  \o <<ScriptCall(Len(calls) + 1, "INFO",
                                  StartLine(FuncName, FuncArgs)),
                       FuncCall(Len(calls) + 1)>>
    /\ UNCHANGED <<startLevel, ambient, relays, uncaught>>
    /\ UNCHANGED logging

\* func is a tool that runs to its end and returns its Result
ToolSucceeds(result) ==
    /\ uncaught = NoExc /\ stack # <<>>
    /\ Top.kind = "wrapped" /\ Top.pc = "running"
    /\ ambient' = result.messages
    /\ stack' = [stack EXCEPT ![Len(stack)].pc = "returned",
                              ![Len(stack)].result = result]
    /\ calls' = [calls EXCEPT ![Top.id].opRet = result]
    /\ UNCHANGED <<severity, startLevel, log, relays, uncaught>>
    /\ UNCHANGED logging

\* func is a plain function that returns something that is no Result
FuncReturnsNone ==
    /\ uncaught = NoExc /\ stack # <<>>
    /\ Top.kind = "wrapped" /\ Top.pc = "running"
    /\ stack' = [stack EXCEPT ![Len(stack)].pc = "returned",
                              ![Len(stack)].result = NoneValue]
    /\ UNCHANGED <<severity, startLevel, ambient, calls, log, relays, uncaught>>
    /\ UNCHANGED logging

\* a tool run in the innermost body fails: arcpy raises ExecuteError when
\* the threshold is 1 or 2, ExecuteWarning only when it is 1 (the docstring
\* of arcpy_severity_context, the comment of line 203)
ToolFails(cls, batch) ==
    /\ uncaught = NoExc /\ stack # <<>>
    /\ Top.pc = "running"
    /\ cls \in {"ExecuteError", "ExecuteWarning"}
    /\ cls = "ExecuteError" => severity \in {1, 2}
    /\ cls = "ExecuteWarning" => severity = 1
    /\ ambient' = batch
    /\ LET e == Exc(cls, Top.id, "tool failed")
       IN  /\ stack' = [stack EXCEPT ![Len(stack)].pc = "raised",
                                     ![Len(stack)].exc = e]
           /\ calls' = [calls EXCEPT ![Top.id].opExc = e]
    /\ UNCHANGED <<severity, startLevel, log, relays, uncaught>>
    /\ UNCHANGED logging

\* the innermost body raises some other exception
FuncRaises(desc) ==
    /\ uncaught = NoExc /\ stack # <<>>
    /\ Top.pc = "running"
    /\ LET e == Exc("Exception", Top.id, desc)
       IN  /\ stack' = [stack EXCEPT ![Len(stack)].pc = "raised",
                                     ![Len(stack)].exc = e]
           /\ calls' = [calls EXCEPT ![Top.id].opExc = e]
    /\ UNCHANGED <<severity, startLevel, ambient, log, relays, uncaught>>
    /\ UNCHANGED logging

MsgCalls(logged) == [i \in 1..Len(logged) |-> MsgCall(logged[i])]

ScriptCalls(id, levelname, lines) ==
    [i \in 1..Len(lines) |-> ScriptCall(id, levelname, lines[i])]

\* func returned, lines 211-214 and the finally of the scope
WrappedElse ==
    /\ uncaught = NoExc /\ stack # <<>>
    /\ Top.kind = "wrapped" /\ Top.pc = "returned"
    /\ LET h == else_clause(FuncName, Len(relays) + 1, Top.result)
       IN  /\ severity' = scope_exit(Top)
           /\ log' = log \o ScriptCalls(Top.id, "INFO", h.lines)
                         \o MsgCalls(h.logged) \o scope_leave(Top)
           /\ relays' = Append(relays, [by |-> Top.id, source |-> Top.result,
                                        raised |-> h.raised,
                                        ret |-> h.relayret])
           /\ Unwind(h.raised)
           /\ calls' = Ended(Top.id,
                             IF h.raised = NoExc THEN "returned" ELSE "raised",
                             h.raised,
                             IF h.raised = NoExc THEN h.ret ELSE NoneValue,
                             <<>>)
    /\ UNCHANGED <<startLevel, ambient>>
    /\ UNCHANGED logging

\* func raised, lines 198-210 and the finally of the scope
WrappedExcept ==
    /\ uncaught = NoExc /\ stack # <<>>
    /\ Top.kind = "wrapped" /\ Top.pc = "raised"
    /\ LET h == except_clause(FuncName, Top.exc, ambient)
       IN  /\ severity' = scope_exit(Top)
           /\ log' = log \o ScriptCalls(Top.id, "ERROR", h.lines)
                         \o MsgCalls(h.logged) \o scope_leave(Top)
           /\ Unwind(h.raised)
           /\ calls' = Ended(Top.id,
                             IF h.raised = NoExc THEN "returned" ELSE "raised",
                             h.raised, NoneValue, h.fetched)
    /\ UNCHANGED <<startLevel, ambient, relays>>
    /\ UNCHANGED logging

\* the sources a direct call of arcpy_log_messages is given
Sources ==
    {Result(b, rid) : b \in Batches, rid \in ResultIDs} \cup {NoneValue, Omitted}

\* arcpy_log_messages called directly by the script, outside any scope; an
\* exception it raises is not handled
RelayCall(source) ==
    /\ uncaught = NoExc /\ stack = <<>> /\ Budget
    /\ LET r == arcpy_log_messages(Len(relays) + 1, source)
       IN  /\ log' = log \o MsgCalls(r.logged)
           /\ relays' = Append(relays, [by |-> 0, source |-> source,
                                        raised |-> r.raised, ret |-> r.ret])
           /\ uncaught' = r.raised
    /\ UNCHANGED <<severity, startLevel, ambient, stack, calls>>
    /\ UNCHANGED logging

Next ==
    \/ \E level \in Severities : EnterScope(level)
    \/ ExitScope
    \/ \E sev \in Severities : CallWrapped(sev)
    \/ \E result \in ToolResults : ToolSucceeds(result)
    \/ FuncReturnsNone
    \/ \E cls \in {"ExecuteError", "ExecuteWarning"} : ToolFails(cls, FailedBatch)
    \/ \E desc \in Descriptions : FuncRaises(desc)
    \/ WrappedElse
    \/ WrappedExcept
    \/ \E source \in Sources : RelayCall(source)

Spec == Init /\ [][Next]_vars

\* ---------------------------------------------------- the logging setup
\* the raw codes a relay is given here: the tool's own, and one between
\* the shifted band and the threshold
RelayedCodes == ArcpyRawCodes \cup {30}

CodeSources == {Result(<< <<c, 0, TextOk>> >>, <<>>) : c \in RelayedCodes}

\* a process in which setup_logging has not run yet
InitLogging ==
    /\ startLevel = 2
    /\ severity = startLevel
    /\ ambient = <<>>
    /\ stack = <<>>
    /\ calls = <<>>
    /\ log = <<>>
    /\ relays = <<>>
    /\ uncaught = NoExc
    /\ levelNames = StdLevelNames
    /\ msgLevel = NOTSET
    /\ setups = 0

\* setup_logging(logger_level, arcpy_msgs_level), lines 84-108: the levels
\* are registered and the message logger's level is set
SetupLogging(arcpy_msgs_level) ==
    /\ setups < MaxSetups
    /\ levelNames' = register(levelNames)
    /\ msgLevel' = arcpy_msgs_level
    /\ setups' = setups + 1
    /\ UNCHANGED <<severity, startLevel, ambient, stack, calls, log, relays,
                   uncaught>>

NextLogging ==
    \/ \E lvl \in {DefaultMsgsLevel, MainMsgsLevel} : SetupLogging(lvl)
    \/ \E source \in CodeSources : RelayCall(source)

SpecLogging == InitLogging /\ [][NextLogging]_vars

\* ------------------------------------------------------------ history
Wrapped == {c \in 1..Len(calls) : calls[c].kind = "wrapped"}

Finished == {c \in 1..Len(calls) : calls[c].status # "active"}

\* call o is call c or was entered inside it
RECURSIVE Within(_, _)
Within(o, c) ==
    IF o = 0 THEN FALSE
    ELSE IF o = c THEN TRUE
    ELSE Within(calls[o].parent, c)

\* positions in the log
ScriptIdx(c) == {i \in 1..Len(log) : log[i].src = "script" /\ log[i].call = c}

StartIdx(c) ==
    {i \in ScriptIdx(c) :
        log[i].level = "INFO" /\ log[i].msg = StartLine(FuncName, FuncArgs)}

SuccessIdx(c) ==
    {i \in ScriptIdx(c) :
        log[i].level = "INFO" /\ log[i].msg = SuccessLine(FuncName)}

ErrorIdx(c) == {i \in ScriptIdx(c) : log[i].level = "ERROR"}

SetIdx(c) == {i \in 1..Len(log) : log[i].src = "arcpy" /\ log[i].call = c}

\* the calls made on the message logger by relay r, in order
MsgOf(r) == SelectSeq(log, LAMBDA e : e.src = "msg" /\ e.call = r)

MsgLog == SelectSeq(log, LAMBDA e : e.src = "msg")

Last(S) == CHOOSE i \in S : \A j \in S : j <= i

\* the calls made on the message logger while call c handled its outcome:
\* after its outcome line and before its scope set the threshold back
RelayedBy(c) ==
    LET from == Last(SuccessIdx(c) \cup ErrorIdx(c))
        to   == Last(SetIdx(c))
    IN  SelectSeq(SubSeq(log, from + 1, to - 1), LAMBDA e : e.src = "msg")

\* what a relay of `batch` emits, as (level, text) pairs
Emitted(batch) ==
    [i \in 1..Len(batch) |-> <<resolve(batch[i][1]), batch[i][Len(batch[i])]>>]

Pairs(entries) ==
    [i \in 1..Len(entries) |-> <<entries[i].level, entries[i].text>>]

\* ------------------------------------------------------------- claims

\* C1: once every scope has exited, normally or by an exception, the
\* threshold is the one the run started with; every scope that has exited
\* left the threshold at the value it read on entry; and the scopes that
\* are still open hold the values to restore in reverse order of entry.
C1_ScopesRestore ==
    /\ stack = <<>> => severity = startLevel
    /\ \A c \in Finished : calls[c].exit = calls[c].entry
    /\ \A i \in 1..Len(stack) :
          stack[i].original_level =
              IF i = 1 THEN startLevel ELSE stack[i - 1].level
    /\ stack # <<>> => severity = stack[Len(stack)].level

\* a scope nested in another, of a different level, left by an exception
\* that also left the outer scope, from a start level neither had set
C1_Witness ==
    /\ stack = <<>> /\ Len(calls) >= 2
    /\ calls[2].parent = 1 /\ calls[2].severity # calls[1].severity
    /\ calls[1].severity # startLevel
    /\ calls[2].status = "raised" /\ calls[1].status = "raised"

\* C2: a wrapped call whose operation raised ends by raising that same
\* exception, at every level of nesting; it never returns.
C2_NeverSwallows ==
    \A c \in Wrapped \cap Finished :
        calls[c].opExc # NoExc =>
            /\ calls[c].status = "raised"
            /\ calls[c].out = calls[c].opExc
            /\ calls[c].parent = 0 => uncaught = calls[c].opExc

\* a wrapped call nested in a wrapped call: the inner operation's exception
\* left both and reached the script
C2_Witness ==
    /\ Len(calls) >= 2 /\ {1, 2} \subseteq Wrapped \cap Finished
    /\ calls[2].parent = 1
    /\ calls[2].opExc.origin = 2
    /\ calls[1].out = calls[2].opExc
    /\ uncaught = calls[2].opExc

\* C3: every wrapped call logs exactly one start line, and once it has
\* ended exactly one outcome line: the success line or an error line.
C3_OneStartOneOutcome ==
    \A c \in Wrapped :
        /\ Cardinality(StartIdx(c)) = 1
        /\ c \in Finished =>
              Cardinality(SuccessIdx(c)) + Cardinality(ErrorIdx(c)) = 1
        /\ c \notin Finished =>
              Cardinality(SuccessIdx(c)) + Cardinality(ErrorIdx(c)) = 0

\* a wrapped call that returned, followed by one whose tool failed
C3_Witness ==
    /\ Len(calls) >= 2 /\ {1, 2} \subseteq Wrapped \cap Finished
    /\ calls[1].status = "returned" /\ calls[2].status = "raised"
    /\ calls[2].opExc.cls = "ExecuteError"

\* C4: every wrapped call relays once after its outcome line: the batch of
\* the result when the operation returned one, the whole ambient batch when
\* the operation raised.
C4_RelayOnEveryPath ==
    \A c \in Wrapped \cap Finished :
        /\ (calls[c].opExc = NoExc /\ calls[c].opRet.kind = "Result") =>
              Pairs(RelayedBy(c)) = Emitted(calls[c].opRet.messages)
        /\ calls[c].opExc # NoExc =>
              Pairs(RelayedBy(c)) = Emitted(calls[c].fetched)

\* C5: a relay that completes makes one log call per message of its batch,
\* in the order of the batch, each with the message's text at the resolved
\* level of its raw code, and returns the batch.
C5_RelayPreservesBatch ==
    \A r \in 1..Len(relays) :
        relays[r].raised = NoExc =>
            LET batch == relays[r].source.messages
                out   == MsgOf(r)
            IN  /\ Len(out) = Len(batch)
                /\ \A i \in 1..Len(batch) :
                      /\ out[i].msg =
                            relays[r].source.resultID \o batch[i][Len(batch[i])]
                      /\ out[i].level = resolve(batch[i][1])
                /\ relays[r].ret = batch

\* a relay of two different messages
C5_Witness ==
    \E r \in 1..Len(relays) :
        /\ relays[r].raised = NoExc
        /\ Len(relays[r].source.messages) >= 2
        /\ relays[r].source.messages[1][1] # relays[r].source.messages[2][1]
        /\ relays[r].source.messages[1][3] # relays[r].source.messages[2][3]
        /\ Len(MsgOf(r)) = Len(relays[r].source.messages)

\* C6 as stated: the level a message was logged at resolves to itself.
C6_ResolveIdempotent ==
    \A i \in 1..Len(MsgLog) : resolve(MsgLog[i].level) = MsgLog[i].level

\* C6 amended: the level a message was logged at resolves to itself when
\* the raw code is 30 or more; the level of a raw code below 30 is still
\* below 50 and resolves to 20 more.
C6_ResolveIdempotentFrom30 ==
    \A i \in 1..Len(MsgLog) :
        LET e == MsgLog[i]
        IN  /\ e.raw >= 30 => resolve(e.level) = e.level
            /\ e.raw < 30 => resolve(e.level) = e.level + 20

\* a shifted code that is not shifted again, and one that is
C6_Witness ==
    /\ \E i \in 1..Len(MsgLog) : MsgLog[i].raw = 30 /\ MsgLog[i].level = 50
    /\ \E i \in 1..Len(MsgLog) : MsgLog[i].raw = 29 /\ MsgLog[i].level = 49

\* the shift the level table was built with: its lowest level is the
\* lowest raw code of the tool, shifted
ShiftAmount ==
    (CHOOSE k \in DOMAIN arcpy_log_level_map :
        \A j \in DOMAIN arcpy_log_level_map : k <= j)
    - (CHOOSE c \in ArcpyRawCodes : \A d \in ArcpyRawCodes : c <= d)

\* the lowest raw code the level table registers as it is
ShiftBelow ==
    CHOOSE c \in ArcpyRawCodes \cap DOMAIN arcpy_log_level_map :
        \A d \in ArcpyRawCodes \cap DOMAIN arcpy_log_level_map : c <= d

\* C7: every message is logged at its raw code plus the table's shift when
\* the raw code is below the threshold, at its raw code otherwise.
C7_PiecewiseRule ==
    \A i \in 1..Len(MsgLog) :
        MsgLog[i].level =
            IF MsgLog[i].raw < ShiftBelow
            THEN MsgLog[i].raw + ShiftAmount
            ELSE MsgLog[i].raw

\* messages on both sides of the threshold, next to it
C7_Witness ==
    /\ \E i \in 1..Len(MsgLog) : MsgLog[i].raw = 49
    /\ \E i \in 1..Len(MsgLog) : MsgLog[i].raw = 50

\* C8 as stated: the warning line is logged only by calls configured with
\* severity 1.
C8_WarningOnlyAtSeverity1 ==
    \A c \in Wrapped :
        (\E i \in ErrorIdx(c) : log[i].msg = WarningLine) =>
            calls[c].severity = 1

\* C8 amended: the warning line is logged only for a warning raised under
\* threshold 1: by the call's own operation when the call is configured
\* with severity 1, or inside a scope of level 1 nested in the call.
C8_WarningOnlyUnderThreshold1 ==
    \A c \in Wrapped :
        (\E i \in ErrorIdx(c) : log[i].msg = WarningLine) =>
            LET e == calls[c].opExc
            IN  /\ e.cls = "ExecuteWarning"
                /\ Within(e.origin, c)
                /\ calls[e.origin].severity = 1
                /\ calls[c].severity = 2 => e.origin # c

\* a call of severity 2 that logged the warning line
C8_Witness ==
    \E c \in Wrapped :
        /\ calls[c].severity = 2
        /\ \E i \in ErrorIdx(c) : log[i].msg = WarningLine

\* C9: the error line tells the failure class: the hard-error line is
\* logged for ExecuteError only, the warning line for ExecuteWarning only,
\* and any other exception gets a third line that holds its description.
C9_OutcomeTellsClass ==
    \A c \in Wrapped \cap Finished :
        calls[c].opExc # NoExc =>
            \A i \in ErrorIdx(c) :
                /\ (log[i].msg = ErrorLine) = (calls[c].opExc.cls = "ExecuteError")
                /\ (log[i].msg = WarningLine) =
                      (calls[c].opExc.cls = "ExecuteWarning")
                /\ calls[c].opExc.cls \notin {"ExecuteError", "ExecuteWarning"} =>
                      /\ log[i].msg[1] = "Unexpected Error in "
                      /\ \E k \in 1..Len(log[i].msg) :
                            log[i].msg[k] = calls[c].opExc.desc

\* a warning raised under threshold 1 with the messages of a hard error
C9_Witness ==
    \E c \in Wrapped \cap Finished :
        /\ calls[c].opExc.cls = "ExecuteWarning"
        /\ calls[c].fetched = FailedBatch
        /\ ErrorIdx(c) # {}

\* C10: a relay of a source with an identifier starts every line with it;
\* a relay of a source without one, or of no source, completes and emits
\* the texts as they are.
C10_PrefixIffIdentifier ==
    \A r \in 1..Len(relays) :
        LET src == relays[r].source
            out == MsgOf(r)
        IN  IF src.kind = "Result" /\ src.resultID # <<>>
            THEN \A i \in 1..Len(out) :
                    SubSeq(out[i].msg, 1, Len(src.resultID)) = src.resultID
            ELSE /\ relays[r].raised = NoExc
                 /\ \A i \in 1..Len(out) : out[i].msg = out[i].text

\* C11: a wrapped call whose operation returned has returned that very
\* value, with the success line logged, the result relayed and no error
\* line.
C11_ReturnsResult ==
    \A c \in Wrapped \cap Finished :
        calls[c].opExc = NoExc =>
            /\ calls[c].status = "returned"
            /\ calls[c].ret = calls[c].opRet
            /\ Cardinality(SuccessIdx(c)) = 1
            /\ ErrorIdx(c) = {}
            /\ \E r \in 1..Len(relays) :
                  /\ relays[r].by = c
                  /\ relays[r].raised = NoExc
                  /\ relays[r].source = calls[c].opRet

\* C12: the table registers nothing at level 0, no message is logged at
\* level 0, and once setup_logging has run every message with a raw code of
\* the tool is logged at a level of the table, named as the table names it.
C12_TableAndRelayAgree ==
    /\ NOTSET \notin DOMAIN arcpy_log_level_map
    /\ \A i \in 1..Len(MsgLog) :
          /\ MsgLog[i].raw >= 0 => MsgLog[i].level # NOTSET
          /\ (setups >= 1 /\ MsgLog[i].raw \in ArcpyRawCodes) =>
                /\ MsgLog[i].level \in DOMAIN arcpy_log_level_map
                /\ MsgLog[i].level \in DOMAIN levelNames.toName
                /\ levelNames.toName[MsgLog[i].level] =
                      arcpy_log_level_map[MsgLog[i].level]

\* after setup_logging, a shifted code and an unshifted one were relayed
C12_Witness ==
    /\ setups >= 1
    /\ \E i \in 1..Len(MsgLog) : MsgLog[i].raw = 3 /\ MsgLog[i].configured
    /\ \E i \in 1..Len(MsgLog) : MsgLog[i].raw = 200 /\ MsgLog[i].configured

\* C13: however often setup_logging has run, the level-name tables are
\* what one registration makes of the tables of the logging module.
C13_RegisterIdempotent ==
    setups >= 1 => levelNames = register(StdLevelNames)

\* setup_logging has run more than once
C13_Witness ==
    /\ setups >= 2
    /\ levelNames.toName[50] = "WARNING"
    /\ levelNames.toLevel["WARNING"] = 50

\* C14: in every wrapped call that has ended, the start line, the call of
\* the operation, the outcome line, the relay and the restoration of the
\* threshold happened, in that order.
C14_FixedOrder ==
    \A c \in Wrapped \cap Finished :
        \E s \in StartIdx(c), o \in SuccessIdx(c) \cup ErrorIdx(c) :
            LET f == CHOOSE i \in 1..Len(log) :
                        log[i].src = "func" /\ log[i].call = c
                x == Last(SetIdx(c))
            IN  /\ s < f /\ f < o /\ o < x
                /\ \E r \in 1..Len(relays) :
                      /\ relays[r].by = c
                      /\ \A i \in 1..Len(log) :
                            (log[i].src = "msg" /\ log[i].call = r) =>
                                (o < i /\ i < x)

\* C15: while a wrapped call is the innermost one, the threshold is the
\* severity that call was configured with, whatever the run started with
\* and whatever the enclosing calls set; the default severity is 2.
C15_ThresholdIsOwnSeverity ==
    /\ DefaultSeverity = 2
    /\ \A i \in 1..Len(stack) :
          (i = Len(stack) /\ stack[i].kind = "wrapped") =>
              severity = calls[stack[i].id].severity

\* an inner wrapped call of another severity has returned and the outer
\* operation goes on, in a run that started at a third threshold
C15_Witness ==
    /\ Len(stack) = 1 /\ Len(calls) = 2
    /\ stack[1].kind = "wrapped" /\ stack[1].pc = "running"
    /\ calls[2].kind = "wrapped" /\ calls[2].status = "returned"
    /\ calls[2].severity # calls[1].severity
    /\ startLevel \notin {calls[1].severity, calls[2].severity}

\* C16: once setup_logging has run, with the default message level or with
\* the level the entry point passes, every message handed to the message
\* logger is written.
C16_NothingFiltered ==
    \A i \in 1..Len(MsgLog) : MsgLog[i].configured => MsgLog[i].written

\* C17: a wrapped call that logged the success line has returned, a
\* wrapped call that raised has logged an error line, and either way the
\* threshold is back at what it was.
C17_OutcomeMatchesEnd ==
    \A c \in Wrapped \cap Finished :
        /\ SuccessIdx(c) # {} => calls[c].status = "returned"
        /\ calls[c].status = "raised" => ErrorIdx(c) # {}
        /\ calls[c].exit = calls[c].entry

\* C18: two messages with different raw codes are logged at different
\* levels.
C18_ResolveInjective ==
    \A i, j \in 1..Len(MsgLog) :
        MsgLog[i].raw # MsgLog[j].raw => MsgLog[i].level # MsgLog[j].level

====
